---- MODULE Spec2Model ----
(***************************************************************************)
(* Model of the co-change analysis pipeline of ccan-rs:                    *)
(*   Changes::from_diffs  ->  CoChanges::from_changes                      *)
(*                            (calculate_freqs, calculate_probs)           *)
(*                                                                         *)
(* Conventions.                                                            *)
(*  - A Vec is a sequence; Rust index k is sequence index k + 1.  A        *)
(*    lookup that finds nothing returns None (= 0, never a valid index).   *)
(*  - A file label (Rc<String>) is a number; < on numbers stands for the   *)
(*    lexicographic order of the strings.                                  *)
(*  - A bin timestamp is a number of seconds.                              *)
(*  - Cells of the changes matrix are whole numbers (counts).              *)
(*  - Cells of a co-change frequency matrix are fixed-point numbers with   *)
(*    Scale units per 1.0 (1/sqrt(k) is truncated to that precision).      *)
(*  - Cells of a probability matrix, and the priors c_prob, are exact      *)
(*    fractions [num, den] in lowest terms; den = 0 encodes the f64        *)
(*    values NaN (0/0) and +inf (x/0, x > 0).                              *)
(***************************************************************************)
EXTENDS Integers, Sequences, FiniteSets, TLC

VARIABLES diffs, pc, changes, opts, co_changes, pred_opts, ripples,
          analysis, result, returned, call, ret

vars == <<diffs, pc, changes, opts, co_changes, pred_opts, ripples,
          analysis, result, returned, call, ret>>

(***************************************************************************)
(* Bounds of the model.  The size of a diff map is the number of its bins  *)
(* plus the number of file entries of all its new_files lists.             *)
(***************************************************************************)
MaxSize == 7
MaxChangesMin == 2
MaxFreqMin == 1
Scale == 10000
MaxMinedSize == 3
MaxClock == 1
MaxNames == 3
MaxDay == 70
MaxCommits == 3
MaxDeltas == 2
MaxAxis == 3
MaxPredictions == 3

\* The file labels (ascending) and the bin timestamps a diff map draws from:
\* three instants, half a day apart.
Files == {1, 2, 3}
Times == <<0, 43200, 86400>>
Algorithms == {"Naive", "Bayes", "Mixed", "Nop"}

(***************************************************************************)
(* Program constants.                                                      *)
(***************************************************************************)
SecondsPerDay == 86400
CoeffEpsInv == 100000
EvidenceEpsInv == 1000000

None == 0

(***************************************************************************)
(* Arithmetic helpers.                                                     *)
(***************************************************************************)
RECURSIVE Gcd(_, _)
Gcd(a, b) == IF b = 0 THEN a ELSE Gcd(b, a % b)

RECURSIVE SeqSum(_)
SeqSum(s) == IF s = <<>> THEN 0 ELSE Head(s) + SeqSum(Tail(s))

Abs(x) == IF x < 0 THEN -x ELSE x

NaN == [num |-> 0, den |-> 0]
Inf == [num |-> 1, den |-> 0]
Zero == [num |-> 0, den |-> 1]
One == [num |-> 1, den |-> 1]

IsNumber(x) == x.den # 0

\* f64 division of two non-negative whole quantities of the same unit
Ratio(x, y) ==
    IF y = 0 THEN (IF x = 0 THEN NaN ELSE Inf)
    ELSE LET g == Gcd(x, y) IN [num |-> x \div g, den |-> y \div g]

\* f64 product and quotient of two non-negative fractions
FMul(x, y) ==
    IF ~IsNumber(x) \/ ~IsNumber(y)
    THEN (IF x = NaN \/ y = NaN \/ x.num = 0 \/ y.num = 0 THEN NaN ELSE Inf)
    ELSE LET g1 == Gcd(x.num, y.den)
             g2 == Gcd(y.num, x.den)
         IN Ratio((x.num \div g1) * (y.num \div g2), (x.den \div g2) * (y.den \div g1))

FDiv(x, y) ==
    IF ~IsNumber(x) \/ ~IsNumber(y)
    THEN (IF x = Inf /\ IsNumber(y) THEN Inf
          ELSE IF IsNumber(x) /\ y = Inf THEN Zero ELSE NaN)
    ELSE IF y.num = 0 THEN (IF x.num = 0 THEN NaN ELSE Inf)
    ELSE FMul(x, [num |-> y.den, den |-> y.num])

FAdd(x, y) ==
    IF ~IsNumber(x) \/ ~IsNumber(y)
    THEN (IF x = NaN \/ y = NaN THEN NaN ELSE Inf)
    ELSE LET g == Gcd(x.den, y.den)
             l == (x.den \div g) * y.den
         IN Ratio(x.num * (l \div x.den) + y.num * (l \div y.den), l)

\* x < 1/epsInv for a fraction x
FBelow(x, epsInv) == IsNumber(x) /\ x.num * epsInv < x.den

RECURSIVE FSum(_)
FSum(s) == IF s = <<>> THEN Zero ELSE FAdd(Head(s), FSum(Tail(s)))

Column(m, j) == [i \in 1..Len(m) |-> m[i][j]]

Range(s) == {s[i] : i \in 1..Len(s)}

RECURSIVE Flatten(_)
Flatten(ss) == IF ss = <<>> THEN <<>> ELSE Head(ss) \o Flatten(Tail(ss))

\* Vec::sort (ascending, by Ord) and Vec::dedup (drops consecutive repeats)
RECURSIVE Insert(_, _)
Insert(x, s) ==
    IF s = <<>> THEN <<x>>
    ELSE IF x <= Head(s) THEN <<x>> \o s
    ELSE <<Head(s)>> \o Insert(x, Tail(s))

RECURSIVE Sort(_)
Sort(s) == IF s = <<>> THEN <<>> ELSE Insert(Head(s), Sort(Tail(s)))

\* no element occurs twice
Unique(names) == \A i, k \in 1..Len(names) : names[i] = names[k] => i = k

RECURSIVE Dedup(_)
Dedup(s) ==
    IF Len(s) <= 1 THEN s
    ELSE IF s[1] = s[2] THEN Dedup(Tail(s))
    ELSE <<s[1]>> \o Dedup(Tail(s))

(***************************************************************************)
(* NamedMatrix (matrix.rs)                                                 *)
(***************************************************************************)
\* the index map, were the first pair of a label to be kept
IndexMapFirst(names) ==
    [x \in Range(names) |->
        CHOOSE i \in 1..Len(names) :
            names[i] = x /\ \A k \in 1..Len(names) : names[k] = x => i <= k]

\* HashMap collected from (label, index) pairs: a later pair overwrites
IndexMap(names) ==
    [x \in Range(names) |->
        CHOOSE i \in 1..Len(names) :
            names[i] = x /\ \A k \in 1..Len(names) : names[k] = x => k <= i]

NamedMatrixNew(row_names, col_names, row_dimname, col_dimname) ==
    [matrix |-> [i \in 1..Len(row_names) |-> [j \in 1..Len(col_names) |-> 0]],
     row_names |-> row_names,
     col_names |-> col_names,
     row_index |-> IndexMap(row_names),
     col_index |-> IndexMap(col_names),
     row_dimname |-> row_dimname,
     col_dimname |-> col_dimname]

index_of_col(m, col) == IF col \in DOMAIN m.col_index THEN m.col_index[col] ELSE None

index_of_row(m, row) == IF row \in DOMAIN m.row_index THEN m.row_index[row] ELSE None

nrows(m) == Len(m.row_names)

ncols(m) == Len(m.col_names)

(***************************************************************************)
(* Changes (changes.rs)                                                    *)
(***************************************************************************)
\* AddNewFiles with the cell set to 1 instead of incremented
RECURSIVE AddNewFilesSetOne(_, _, _)
AddNewFilesSetOne(m, new_files, col) ==
    IF new_files = <<>> THEN m
    ELSE LET row == index_of_row(m, Head(new_files))
             m1 == IF row # None /\ col # None
                   THEN [m EXCEPT !.matrix[row][col] = 1]
                   ELSE m
         IN AddNewFilesSetOne(m1, Tail(new_files), col)

\* the inner loop of calculate_changes: one increment per new_files entry
RECURSIVE AddNewFiles(_, _, _)
AddNewFiles(m, new_files, col) ==
    IF new_files = <<>> THEN m
    ELSE LET row == index_of_row(m, Head(new_files))
             m1 == IF row # None /\ col # None
                   THEN [m EXCEPT !.matrix[row][col] = @ + 1]
                   ELSE m
         IN AddNewFiles(m1, Tail(new_files), col)

\* calculate_changes that leaves out the entry visited last
RECURSIVE calculate_changes_but_last(_, _, _)
calculate_changes_but_last(m, d, order) ==
    IF Len(order) <= 1 THEN m
    ELSE calculate_changes_but_last(
            AddNewFiles(m, d[Head(order)].new_files, index_of_col(m, Head(order))),
            d, Tail(order))

\* calculate_changes, visiting the entries of the map in the order `order`
RECURSIVE calculate_changes(_, _, _)
calculate_changes(m, d, order) ==
    IF order = <<>> THEN m
    ELSE calculate_changes(
            AddNewFiles(m, d[Head(order)].new_files, index_of_col(m, Head(order))),
            d, Tail(order))

calculate_c_freq(m) == [i \in 1..nrows(m) |-> SeqSum(m.matrix[i])]

\* the priors divided by the number of bins instead of the number of files
calculate_c_prob_by_bins(m) == [i \in 1..nrows(m) |-> Ratio(SeqSum(m.matrix[i]), ncols(m))]

calculate_c_prob(m) == [i \in 1..nrows(m) |-> Ratio(SeqSum(m.matrix[i]), nrows(m))]

from_diffs(d, order) ==
    LET rows == Dedup(Sort(Flatten([k \in 1..Len(order) |-> d[order[k]].new_files])))
        cols == Dedup(Sort(order))
        m == calculate_changes(NamedMatrixNew(rows, cols, "files", "dates"), d, order)
    IN [freqs |-> m, c_freq |-> calculate_c_freq(m), c_prob |-> calculate_c_prob(m)]

\* Changes::n_vers, read by the Bayesian probabilities: the number of bins
n_vers(ch) == ncols(ch.freqs)

(***************************************************************************)
(* NaiveModel (naive.rs)                                                   *)
(***************************************************************************)
\* the days of a duration, were they rounded to the nearest day
num_days_rounded(secs) == (secs + SecondsPerDay \div 2) \div SecondsPerDay

\* chrono Duration::num_days: whole days, truncated towards zero
num_days(secs) ==
    IF secs >= 0 THEN secs \div SecondsPerDay ELSE -((-secs) \div SecondsPerDay)

MaxGapDays == num_days(Times[Len(Times)] - Times[1])

\* 1 / sqrt(k) in fixed point: the smoothing closure followed by the reciprocal
InvSqrtTable ==
    [k \in 1..(MaxGapDays + 1) |->
        CHOOSE x \in 0..Scale :
            x * x * k <= Scale * Scale /\ (x + 1) * (x + 1) * k > Scale * Scale]

InvSqrt(k) == InvSqrtTable[k]

dates_distance(dates) ==
    [i \in 1..Len(dates) |->
        [j \in 1..Len(dates) |->
            InvSqrt((IF j < i THEN num_days(dates[i] - dates[j]) ELSE 0) + 1)]]

\* filter_freqs that keeps an entry equal to min_freq
filter_freqs_lt(freqs, min_freq) ==
    [freqs EXCEPT !.matrix =
        [i \in 1..Len(@) |->
            [j \in 1..Len(@[i]) |-> IF @[i][j] < min_freq * Scale THEN 0 ELSE @[i][j]]]]

filter_freqs(freqs, min_freq) ==
    [freqs EXCEPT !.matrix =
        [i \in 1..Len(@) |->
            [j \in 1..Len(@[i]) |-> IF @[i][j] <= min_freq * Scale THEN 0 ELSE @[i][j]]]]

cc_coefficient(f1, f2, dates_dist) ==
    SeqSum([i \in 1..Len(f1) |->
        IF f1[i] * CoeffEpsInv < 1 THEN 0
        ELSE SeqSum([j \in 1..i |->
                IF Abs(f2[j] - 1) * CoeffEpsInv < 1 THEN dates_dist[i][j] ELSE 0])])

\* the row filter with a strict threshold
RECURSIVE FiltFromAbove(_, _, _)
FiltFromAbove(m, min_change_freq, k) ==
    IF k > Len(m.row_names) THEN <<>>
    ELSE LET row == m.row_names[k]
             i == index_of_row(m, row)
         IN (IF i # None /\ SeqSum(m.matrix[i]) > min_change_freq THEN <<row>> ELSE <<>>)
            \o FiltFromAbove(m, min_change_freq, k + 1)

filt_row_names_above(m, min_change_freq) == FiltFromAbove(m, min_change_freq, 1)

\* the row filter shared by the Naive and the Bayesian calculate_freqs
RECURSIVE FiltFrom(_, _, _)
FiltFrom(m, min_change_freq, k) ==
    IF k > Len(m.row_names) THEN <<>>
    ELSE LET row == m.row_names[k]
             i == index_of_row(m, row)
         IN (IF i # None /\ SeqSum(m.matrix[i]) >= min_change_freq THEN <<row>> ELSE <<>>)
            \o FiltFrom(m, min_change_freq, k + 1)

filt_row_names(m, min_change_freq) == FiltFrom(m, min_change_freq, 1)

\* the pair loop without the i == j skip
NaiveCellWithDiagonal(m, dates_dist, i, j) ==
    cc_coefficient(m.matrix[i], m.matrix[j], dates_dist)

\* one pass of the pair loop of NaiveModel::calculate_freqs
NaiveCell(m, dates_dist, i, j) ==
    IF i = j THEN 0 ELSE cc_coefficient(m.matrix[i], m.matrix[j], dates_dist)

NaiveCalculateFreqs(ch, o) ==
    LET m == ch.freqs
        filt == filt_row_names(m, o.changes_min)
        cc_freq == NamedMatrixNew(filt, filt, "impacted", "changed")
        dates_dist == dates_distance(m.col_names)
    IN filter_freqs(
            [cc_freq EXCEPT !.matrix =
                [i \in 1..Len(filt) |-> [j \in 1..Len(filt) |-> NaiveCell(m, dates_dist, i, j)]]],
            o.freq_min)

\* calculate_probs normalising by the row sum instead of the column sum
NaiveCalculateProbsByRow(freqs) ==
    LET cc_prob == NamedMatrixNew(freqs.row_names, freqs.row_names, "impacted", "changing")
    IN [cc_prob EXCEPT !.matrix =
            [u \in 1..nrows(freqs) |->
                [v \in 1..ncols(freqs) |->
                    Ratio(freqs.matrix[u][v], SeqSum(freqs.matrix[u]))]]]

NaiveCalculateProbs(freqs) ==
    LET cc_prob == NamedMatrixNew(freqs.row_names, freqs.row_names, "impacted", "changing")
    IN [cc_prob EXCEPT !.matrix =
            [u \in 1..nrows(freqs) |->
                [v \in 1..ncols(freqs) |->
                    Ratio(freqs.matrix[u][v], SeqSum(Column(freqs.matrix, v)))]]]

(***************************************************************************)
(* BayesianModel, MixedModel (bayes.rs), NopModel (nop.rs)                 *)
(***************************************************************************)
\* the count, were it of the bins in which the first file changed
co_change_of_first(v1, v2) ==
    Cardinality({k \in 1..Len(v1) : v1[k] > 0}) * Scale

co_change(v1, v2) ==
    Cardinality({k \in 1..Len(v1) : v1[k] > 0 /\ v2[k] > 0}) * Scale

BayesCell(m, i, j) == IF i = j THEN 0 ELSE co_change(m.matrix[i], m.matrix[j])

BayesCalculateFreqs(ch, o) ==
    LET m == ch.freqs
        filt == filt_row_names(m, o.changes_min)
        cc_freq == NamedMatrixNew(filt, filt, "impacted", "changed")
    IN filter_freqs(
            [cc_freq EXCEPT !.matrix =
                [i \in 1..Len(filt) |-> [j \in 1..Len(filt) |-> BayesCell(m, i, j)]]],
            o.freq_min)

BayesProbCell(ch, freqs, i, j) ==
    LET priori == FDiv(Ratio(freqs.matrix[i][j], Scale), Ratio(n_vers(ch), 1))
        e1 == ch.c_prob[i]
        e2 == ch.c_prob[j]
    IN IF FBelow(e1, EvidenceEpsInv) \/ FBelow(e2, EvidenceEpsInv) THEN Zero
       ELSE FDiv(FMul(priori, e1), e2)

BayesCalculateProbs(ch, freqs) ==
    LET cc_probs == NamedMatrixNew(freqs.row_names, freqs.row_names, "impacted", "changing")
    IN [cc_probs EXCEPT !.matrix =
            [i \in 1..nrows(freqs) |-> [j \in 1..ncols(freqs) |-> BayesProbCell(ch, freqs, i, j)]]]

NopMatrix == NamedMatrixNew(<<>>, <<>>, "None", "None")

(***************************************************************************)
(* ModelTypes::get_model (model.rs) and CoChanges::from_changes            *)
(* (cochanges.rs)                                                          *)
(***************************************************************************)
\* the selection with Mixed taking the Bayesian frequencies
calculate_freqs_mixed_as_bayes(ch, o) ==
    CASE o.algorithm = "Naive" -> NaiveCalculateFreqs(ch, o)
      [] o.algorithm = "Bayes" -> BayesCalculateFreqs(ch, o)
      [] o.algorithm = "Mixed" -> BayesCalculateFreqs(ch, o)
      [] o.algorithm = "Nop" -> NopMatrix

calculate_freqs(ch, o) ==
    CASE o.algorithm = "Naive" -> NaiveCalculateFreqs(ch, o)
      [] o.algorithm = "Bayes" -> BayesCalculateFreqs(ch, o)
      [] o.algorithm = "Mixed" -> NaiveCalculateFreqs(ch, o)
      [] o.algorithm = "Nop" -> NopMatrix

calculate_probs(ch, freqs, o) ==
    CASE o.algorithm = "Naive" -> NaiveCalculateProbs(freqs)
      [] o.algorithm = "Bayes" -> BayesCalculateProbs(ch, freqs)
      [] o.algorithm = "Mixed" -> BayesCalculateProbs(ch, freqs)
      [] o.algorithm = "Nop" -> NopMatrix

from_changes(ch, o) ==
    LET cc_freqs == calculate_freqs(ch, o)
    IN [freqs |-> cc_freqs, probs |-> calculate_probs(ch, cc_freqs, o)]

(***************************************************************************)
(* Ripple prediction (predict.rs and the predict method of each model).    *)
(* A prediction is a pair <<label, probability>>; the ripples record holds *)
(* the changing files and the vector of predictions.                       *)
(***************************************************************************)
\* an empty ripple that carries one undefined prediction for an unknown file
RipplesOfUnknown == [changing_files |-> <<>>, predictions |-> << <<None, NaN>> >>]

EmptyRipples == [changing_files |-> <<>>, predictions |-> <<>>]

\* the bin selection with strict comparisons
window_indices_strict(ch, opt) ==
    LET InWindow(j) == /\ ch.freqs.col_names[j] > opt.since_changes
                       /\ ch.freqs.col_names[j] < opt.until_changes
    IN SelectSeq([j \in 1..ncols(ch.freqs) |-> j], InWindow)

\* the indices of the bins d with since_changes <= d <= until_changes
window_indices(ch, opt) ==
    LET InWindow(j) == /\ ch.freqs.col_names[j] >= opt.since_changes
                       /\ ch.freqs.col_names[j] <= opt.until_changes
    IN SelectSeq([j \in 1..ncols(ch.freqs) |-> j], InWindow)

\* the row sum over the closed span start..=end
row_slice_sum_inclusive(m, i, start, end) == SeqSum(SubSeq(m.matrix[i], start, end))

\* row(i).slice(s![start..end]).sum(): the span excludes the index end
row_slice_sum(m, i, start, end) == SeqSum(SubSeq(m.matrix[i], start, end - 1))

\* the loop over the rows of F that collects the changed files, from row i on
RECURSIVE changed_files_from(_, _, _, _)
changed_files_from(m, start, end, i) ==
    IF i > nrows(m) THEN <<>>
    ELSE (IF row_slice_sum(m, i, start, end) > 0 THEN <<m.row_names[i]>> ELSE <<>>)
         \o changed_files_from(m, start, end, i + 1)

\* filter_map(index_of_col): the columns of probs named by the changed files
RECURSIVE col_indices(_, _)
col_indices(probs, changed_files) ==
    IF changed_files = <<>> THEN <<>>
    ELSE LET i == index_of_col(probs, Head(changed_files))
         IN (IF i # None THEN <<i>> ELSE <<>>) \o col_indices(probs, Tail(changed_files))

\* sum = sum + column(i), for each index in turn
RECURSIVE sum_columns(_, _, _)
sum_columns(probs, indices, sum) ==
    IF indices = <<>> THEN sum
    ELSE sum_columns(probs, Tail(indices),
            [r \in 1..Len(sum) |-> FAdd(sum[r], probs.matrix[r][Head(indices)])])

zeros(n) == [r \in 1..n |-> Zero]

\* the Naive predictor averaging over the changed files instead of the columns summed
NaivePredictByChanged(cc, changed_files) ==
    LET indices == col_indices(cc.probs, changed_files)
        sum == sum_columns(cc.probs, indices, zeros(Len(cc.probs.row_names)))
    IN [i \in 1..Len(sum) |->
            <<cc.probs.row_names[i], FDiv(sum[i], Ratio(Len(changed_files), 1))>>]

NaivePredict(cc, changed_files) ==
    LET indices == col_indices(cc.probs, changed_files)
        sum == sum_columns(cc.probs, indices, zeros(Len(cc.probs.row_names)))
        n == Len(indices)
    IN [i \in 1..Len(sum) |-> <<cc.probs.row_names[i], FDiv(sum[i], Ratio(n, 1))>>]

BayesPredict(cc, changed_files) ==
    LET indices == col_indices(cc.probs, changed_files)
        sum == sum_columns(cc.probs, indices, zeros(Len(cc.probs.row_names)))
    IN [i \in 1..Len(sum) |-> <<cc.probs.row_names[i], sum[i]>>]

MixedPredict(cc, changed_files) == BayesPredict(cc, changed_files)

\* the Nop predictor summing the columns like the Bayesian one
NopPredictAsBayes(cc, changed_files) == BayesPredict(cc, changed_files)

NopPredict(cc, changed_files) == <<>>

\* get_model().predict(..)
predict(cc, changed_files, opt) ==
    CASE opt.algorithm = "Naive" -> NaivePredict(cc, changed_files)
      [] opt.algorithm = "Bayes" -> BayesPredict(cc, changed_files)
      [] opt.algorithm = "Mixed" -> MixedPredict(cc, changed_files)
      [] opt.algorithm = "Nop" -> NopPredict(cc, changed_files)

predict0(cc, ch, opt) ==
    LET indices == window_indices(ch, opt)
    IN IF indices = <<>> THEN EmptyRipples
       ELSE LET start == indices[1]
                end == indices[Len(indices)]
                changed_files == changed_files_from(ch.freqs, start, end, 1)
            IN [changing_files |-> changed_files,
                predictions |-> predict(cc, changed_files, opt)]

\* RippleChangeProbabilities::from: nothing is predicted when skip is set
RippleChangeProbabilitiesFrom(cc, ch, opt) ==
    IF opt.skip THEN EmptyRipples ELSE predict0(cc, ch, opt)

(***************************************************************************)
(* The inputs: diff maps (GroupedBetterDiffs, bettergit.rs) of size at     *)
(* most MaxSize.  new_files lists are in ascending label order, the order  *)
(* in which a tree-to-tree diff lists its deltas.                          *)
(***************************************************************************)
NewFilesLists(n) ==
    {l \in UNION {[1..k -> Files] : k \in 0..n} :
        \A i \in 1..(Len(l) - 1) : l[i] <= l[i + 1]}

EmptyMap == [t \in {} |-> [new_files |-> <<>>]]

RECURSIVE DiffMapsFrom(_, _)
DiffMapsFrom(k, budget) ==
    IF k > Len(Times) THEN {EmptyMap}
    ELSE DiffMapsFrom(k + 1, budget)
         \cup (IF budget < 1 THEN {}
               ELSE UNION {{(Times[k] :> [new_files |-> l]) @@ m :
                                m \in DiffMapsFrom(k + 1, budget - 1 - Len(l))} :
                           l \in NewFilesLists(budget - 1)})

DiffMaps == DiffMapsFrom(1, MaxSize)

\* the orders in which a HashMap with key set S may be iterated
Orders(S) ==
    {o \in [1..Cardinality(S) -> S] :
        \A i, j \in 1..Cardinality(S) : i # j => o[i] # o[j]}

NoChanges ==
    [freqs |-> NamedMatrixNew(<<>>, <<>>, "None", "None"), c_freq |-> <<>>, c_prob |-> <<>>]

NoOpts == [changes_min |-> 0, freq_min |-> 0, algorithm |-> "Nop"]

NoCoChanges == [freqs |-> NopMatrix, probs |-> NopMatrix]

\* the prediction options: with skip set the window is not read
PredictionOpts ==
    {[skip |-> TRUE, since_changes |-> Times[1], until_changes |-> Times[Len(Times)],
      algorithm |-> a] : a \in Algorithms}
    \cup {[skip |-> FALSE, since_changes |-> s, until_changes |-> u, algorithm |-> a] :
             s \in Range(Times), u \in Range(Times), a \in Algorithms}

NoPredOpts ==
    [skip |-> TRUE, since_changes |-> Times[1], until_changes |-> Times[1], algorithm |-> "Nop"]

\* no function of the library is being called on its own
NoCall == [fn |-> "none"]

NoRet == <<>>

\* Analysis::new; an Option is a sequence of length at most one
AnalysisNew ==
    [status |-> "Initialized", output |-> <<>>, start |-> <<>>, end |-> <<>>, duration |-> 0]

\* the Analysis while its first run executes the pipeline
AnalysisRunning == [AnalysisNew EXCEPT !.status = "Running", !.start = <<0>>]

(***************************************************************************)
(* The pipeline of Analysis::execute (lib.rs), one action per stage.       *)
(***************************************************************************)
Init ==
    /\ diffs \in DiffMaps
    /\ pc = "diffs"
    /\ changes = NoChanges
    /\ opts = NoOpts
    /\ co_changes = NoCoChanges
    /\ pred_opts = NoPredOpts
    /\ ripples = EmptyRipples
    /\ analysis = AnalysisRunning
    /\ result = "None"
    /\ returned = "None"
    /\ call = NoCall
    /\ ret = NoRet

FromDiffs ==
    /\ pc = "diffs"
    /\ \E order \in Orders(DOMAIN diffs) : changes' = from_diffs(diffs, order)
    /\ pc' = "changes"
    /\ UNCHANGED <<diffs, opts, co_changes, pred_opts, ripples, analysis, result, returned, call, ret>>

FromChanges ==
    /\ pc = "changes"
    /\ \E cm \in 0..MaxChangesMin, fm \in 0..MaxFreqMin, alg \in Algorithms :
          /\ opts' = [changes_min |-> cm, freq_min |-> fm, algorithm |-> alg]
          /\ co_changes' = from_changes(changes, opts')
    /\ pc' = "cochanges"
    /\ UNCHANGED <<diffs, changes, pred_opts, ripples, analysis, result, returned, call, ret>>

Next == FromDiffs \/ FromChanges

Spec == Init /\ [][Next]_vars

(***************************************************************************)
(* The pipeline with its last stage, the ripple prediction, on diff maps   *)
(* of size at most MaxSize - 2.                                            *)
(***************************************************************************)
InitRipple ==
    /\ diffs \in DiffMapsFrom(1, MaxSize - 2)
    /\ pc = "diffs"
    /\ changes = NoChanges
    /\ opts = NoOpts
    /\ co_changes = NoCoChanges
    /\ pred_opts = NoPredOpts
    /\ ripples = EmptyRipples
    /\ analysis = AnalysisRunning
    /\ result = "None"
    /\ returned = "None"
    /\ call = NoCall
    /\ ret = NoRet

Predict ==
    /\ pc = "cochanges"
    /\ \E po \in PredictionOpts :
          /\ pred_opts' = po
          /\ ripples' = RippleChangeProbabilitiesFrom(co_changes, changes, po)
    /\ pc' = "ripples"
    /\ UNCHANGED <<diffs, changes, opts, co_changes, analysis, result, returned, call, ret>>

NextRipple == FromDiffs \/ FromChanges \/ Predict

SpecRipple == InitRipple /\ [][NextRipple]_vars

(***************************************************************************)
(* Analysis (lib.rs): new, then any number of calls of run.  The options   *)
(* are those given to new; diffs is what mining the repository yields      *)
(* under them, a map of size at most MaxMinedSize.  A call of run is the   *)
(* steps RunStart, the stages of execute, RunReturn.  result is the local  *)
(* of run that holds what execute returned, returned what the last call    *)
(* of run returned.  Utc::now() reads the wall clock, a value in           *)
(* 0..MaxClock.                                                            *)
(***************************************************************************)
AnalysisOpts ==
    {[changes_min |-> 0, freq_min |-> 0, algorithm |-> a] : a \in Algorithms}

AnalysisPredOpts ==
    {po \in PredictionOpts :
        po.since_changes = Times[1] /\ po.until_changes = Times[Len(Times)]}

InitAnalysis ==
    /\ diffs \in DiffMapsFrom(1, MaxMinedSize)
    /\ opts \in AnalysisOpts
    /\ pred_opts \in AnalysisPredOpts
    /\ pc = "idle"
    /\ changes = NoChanges
    /\ co_changes = NoCoChanges
    /\ ripples = EmptyRipples
    /\ analysis = AnalysisNew
    /\ result = "None"
    /\ returned = "None"
    /\ call = NoCall
    /\ ret = NoRet

RunStart ==
    /\ pc = "idle"
    /\ \E now \in 0..MaxClock :
          analysis' = [analysis EXCEPT !.status = "Running", !.start = <<now>>]
    /\ pc' = "open"
    /\ returned' = "None"
    /\ UNCHANGED <<diffs, changes, opts, co_changes, pred_opts, ripples, result, call, ret>>

OpenRepository ==
    /\ pc = "open"
    /\ \/ pc' = "mine" /\ UNCHANGED result
       \/ pc' = "return" /\ result' = "cannot open repository"
    /\ UNCHANGED <<diffs, changes, opts, co_changes, pred_opts, ripples, analysis, returned, call, ret>>

MineDiffs ==
    /\ pc = "mine"
    /\ \/ pc' = "diffs" /\ UNCHANGED result
       \/ pc' = "return" /\ result' = "cannot find branch"
    /\ UNCHANGED <<diffs, changes, opts, co_changes, pred_opts, ripples, analysis, returned, call, ret>>

ExecuteOk ==
    /\ pc = "ripples"
    /\ result' = "Ok"
    /\ pc' = "return"
    /\ UNCHANGED <<diffs, changes, opts, co_changes, pred_opts, ripples, analysis, returned, call, ret>>

AnalysisOutput == [changes |-> changes, co_changes |-> co_changes, ripples |-> ripples]

\* the status after run, were every run to end Completed
run_status_completed(res) == "Completed"

\* the match on result at the end of run: the status ...
run_status(res) == IF res = "Ok" THEN "Completed" ELSE "Failed"

\* the output after run, were a failed run to store what execute had built
run_output_partial(res, output) == <<AnalysisOutput>>

\* ... and the output, which only the Ok arm assigns
run_output(res, output) == IF res = "Ok" THEN <<AnalysisOutput>> ELSE output

RunReturn ==
    /\ pc = "return"
    /\ \E now \in 0..MaxClock :
          analysis' = [analysis EXCEPT
                          !.end = <<now>>,
                          !.duration = now - analysis.start[1],
                          !.status = run_status(result),
                          !.output = run_output(result, @)]
    /\ returned' = result
    /\ result' = "None"
    /\ changes' = NoChanges
    /\ co_changes' = NoCoChanges
    /\ ripples' = EmptyRipples
    /\ pc' = "idle"
    /\ UNCHANGED <<diffs, opts, pred_opts, call, ret>>

NextAnalysis ==
    \/ RunStart
    \/ OpenRepository
    \/ MineDiffs
    \/ FromDiffs
    \/ opts' = opts /\ FromChanges
    \/ pred_opts' = pred_opts /\ Predict
    \/ ExecuteOk
    \/ RunReturn

SpecAnalysis == InitAnalysis /\ [][NextAnalysis]_vars

(***************************************************************************)
(* Functions of the library called on their own: call holds the function   *)
(* and its arguments, ret what it returned.  The pipeline is not running.  *)
(***************************************************************************)
pipeline == <<diffs, changes, opts, co_changes, pred_opts, ripples, analysis, result, returned>>

NoPipeline ==
    /\ diffs = EmptyMap
    /\ changes = NoChanges
    /\ opts = NoOpts
    /\ co_changes = NoCoChanges
    /\ pred_opts = NoPredOpts
    /\ ripples = EmptyRipples
    /\ analysis = AnalysisNew
    /\ result = "None"
    /\ returned = "None"

SeqsUpTo(S, n) == UNION {[1..k -> S] : k \in 0..n}

(***************************************************************************)
(* NamedMatrix::new (matrix.rs) on row and column labels of length at most *)
(* MaxNames, repeated labels included.                                     *)
(***************************************************************************)
InitMatrix ==
    /\ call \in {[fn |-> "NamedMatrix::new", row_names |-> r, col_names |-> c] :
                    r \in SeqsUpTo(Files, MaxNames), c \in SeqsUpTo(Range(Times), MaxNames)}
    /\ ret = NoRet
    /\ pc = "call"
    /\ NoPipeline

NewMatrix ==
    /\ pc = "call"
    /\ call.fn = "NamedMatrix::new"
    /\ ret' = NamedMatrixNew(call.row_names, call.col_names, "files", "dates")
    /\ pc' = "done"
    /\ UNCHANGED <<call, pipeline>>

NextMatrix == NewMatrix

SpecMatrix == InitMatrix /\ [][NextMatrix]_vars

(***************************************************************************)
(* DateGrouping::get_group (bettergit.rs).  A DateTime<Utc> is its number  *)
(* of seconds since 1970-01-01T00:00:00Z; the calendar is the proleptic    *)
(* Gregorian calendar of chrono, computed on day numbers.                  *)
(***************************************************************************)
Groupings == {"None", "Daily", "Weekly", "Monthly"}

\* the day number of an instant and its second within that day
day_number(d) == d \div SecondsPerDay

\* Datelike::year, month, day of an instant
year_month_day(d) ==
    LET z   == day_number(d) + 719468
        era == z \div 146097
        doe == z - era * 146097
        yoe == (doe - doe \div 1460 + doe \div 36524 - doe \div 146096) \div 365
        doy == doe - (365 * yoe + yoe \div 4 - yoe \div 100)
        mp  == (5 * doy + 2) \div 153
        m   == IF mp < 10 THEN mp + 3 ELSE mp - 9
    IN [year  |-> yoe + era * 400 + (IF m <= 2 THEN 1 ELSE 0),
        month |-> m,
        day   |-> doy - (153 * mp + 2) \div 5 + 1]

\* Utc.with_ymd_and_hms(year, month, day, 0, 0, 0)
with_ymd_and_hms(year, month, day) ==
    LET y   == IF month <= 2 THEN year - 1 ELSE year
        era == y \div 400
        yoe == y - era * 400
        doy == (153 * (IF month > 2 THEN month - 3 ELSE month + 9) + 2) \div 5 + day - 1
        doe == yoe * 365 + yoe \div 4 - yoe \div 100 + doy
    IN (era * 146097 + doe - 719468) * SecondsPerDay

\* the days since the last Sunday, were the week to start on Sunday
num_days_from_sunday(d) == (day_number(d) + 4) % 7

\* d.weekday().num_days_from_monday(): 1970-01-01 was a Thursday
num_days_from_monday(d) == (day_number(d) + 3) % 7

get_group(grouping, d) ==
    LET ymd == year_month_day(d)
    IN CASE grouping = "None" -> d
         [] grouping = "Daily" -> with_ymd_and_hms(ymd.year, ymd.month, ymd.day)
         [] grouping = "Weekly" ->
                with_ymd_and_hms(ymd.year, ymd.month, ymd.day)
                    - num_days_from_monday(d) * SecondsPerDay
         [] grouping = "Monthly" -> with_ymd_and_hms(ymd.year, ymd.month, 1)

\* the instants of the model: from Friday 2019-12-27 on, MaxDay days, at
\* the first, second, middle and last second of each day
FirstDay == 18257

SecondsOfDay == {0, 1, 43200, 86399}

Instants == {(FirstDay + k) * SecondsPerDay + s : k \in 0..MaxDay, s \in SecondsOfDay}

InitGroup ==
    /\ call \in {[fn |-> "get_group", grouping |-> g, d |-> d] :
                    g \in Groupings, d \in Instants}
    /\ ret = NoRet
    /\ pc = "call"
    /\ NoPipeline

GetGroup ==
    /\ pc = "call"
    /\ call.fn = "get_group"
    /\ ret' = get_group(call.grouping, call.d)
    /\ pc' = "done"
    /\ UNCHANGED <<call, pipeline>>

NextGroup == GetGroup

SpecGroup == InitGroup /\ [][NextGroup]_vars

(***************************************************************************)
(* BetterGit::sample_commits (bettergit.rs).  A commit object is its       *)
(* identity and its commit time; the vector holds at most MaxCommits       *)
(* commits, in any order and with equal commit times allowed.              *)
(***************************************************************************)
\* itertools sorted_by: a stable sort of (object, group) pairs by group
RECURSIVE InsertByGroup(_, _)
InsertByGroup(x, s) ==
    IF s = <<>> THEN <<x>>
    ELSE IF Head(s)[2] <= x[2] THEN <<Head(s)>> \o InsertByGroup(x, Tail(s))
    ELSE <<x>> \o s

RECURSIVE sorted_by(_)
sorted_by(s) ==
    IF s = <<>> THEN <<>>
    ELSE InsertByGroup(s[Len(s)], sorted_by(SubSeq(s, 1, Len(s) - 1)))

\* itertools dedup_by: of a run of pairs with equal groups the first is kept
RECURSIVE dedup_by(_)
dedup_by(s) ==
    IF Len(s) <= 1 THEN s
    ELSE IF s[1][2] = s[2][2] THEN dedup_by(<<s[1]>> \o SubSeq(s, 3, Len(s)))
    ELSE <<s[1]>> \o dedup_by(Tail(s))

sample_commits(objects, binning) ==
    LET grouped == [i \in 1..Len(objects) |-> <<objects[i], get_group(binning, objects[i].time)>>]
        kept    == dedup_by(sorted_by(grouped))
    IN [i \in 1..Len(kept) |-> kept[i][1]]

\* commit times: Monday 2019-12-30 at 10:00 and 11:00, the day after at
\* 10:00, Thursday 2020-01-09 and Saturday 2020-02-08 at 10:00
CommitTimes ==
    {18260 * SecondsPerDay + 36000, 18260 * SecondsPerDay + 39600,
     18261 * SecondsPerDay + 36000, 18270 * SecondsPerDay + 36000,
     18300 * SecondsPerDay + 36000}

CommitVectors ==
    {[i \in 1..Len(ts) |-> [id |-> i, time |-> ts[i]]] : ts \in SeqsUpTo(CommitTimes, MaxCommits)}

InitSample ==
    /\ call \in {[fn |-> "sample_commits", objects |-> o, binning |-> g] :
                    o \in CommitVectors, g \in Groupings}
    /\ ret = NoRet
    /\ pc = "call"
    /\ NoPipeline

SampleCommits ==
    /\ pc = "call"
    /\ call.fn = "sample_commits"
    /\ ret' = sample_commits(call.objects, call.binning)
    /\ pc' = "done"
    /\ UNCHANGED <<call, pipeline>>

NextSample == SampleCommits

SpecSample == InitSample /\ [][NextSample]_vars

(***************************************************************************)
(* BetterGit::diffs (bettergit.rs) with FileFilteringOpt.  A path is the   *)
(* sequence of its characters; a Regex is one of the patterns of           *)
(* Patterns, built case-insensitive.  The tree-to-tree diff of two         *)
(* adjacent commits is an input: it fails or yields a list of deltas,      *)
(* each with an old and a new path, and all lists together hold at most    *)
(* MaxDeltas deltas.                                                       *)
(***************************************************************************)
Paths == {<<"a", ".", "c", "s">>, <<"B", ".", "C", "S">>, <<"a", ".", "t", "x", "t">>}

Patterns == {".*", "a^", ".*cs$"}

to_lowercase(c) == CASE c = "C" -> "c" [] c = "S" -> "s" [] c = "B" -> "b" [] OTHER -> c

\* Regex::is_match of a case-insensitive pattern
is_match(re, path) ==
    CASE re = ".*" -> TRUE
      [] re = "a^" -> FALSE
      [] re = ".*cs$" ->
            /\ Len(path) >= 2
            /\ to_lowercase(path[Len(path) - 1]) = "c"
            /\ to_lowercase(path[Len(path)]) = "s"

exclude(file_filters, path) == is_match(file_filters.exclude_paths, path)

include(file_filters, path) == is_match(file_filters.include_paths, path)

matches(file_filters, path) ==
    ~exclude(file_filters, path) /\ include(file_filters, path)

\* the closure over the deltas of one diff: old and new path are pushed
\* when the old path passes the filter
RECURSIVE push_deltas(_, _, _)
push_deltas(b_diff, deltas, file_filters) ==
    IF deltas = <<>> THEN b_diff
    ELSE LET d == Head(deltas)
         IN IF matches(file_filters, d.old_file)
            THEN push_deltas([b_diff EXCEPT !.old_files = Append(@, d.old_file),
                                            !.new_files = Append(@, d.new_file)],
                             Tail(deltas), file_filters)
            ELSE push_deltas(b_diff, Tail(deltas), file_filters)

BetterDiffNew(parent, child) ==
    [parent |-> parent, child |-> child, old_files |-> <<>>, new_files |-> <<>>]

NoDiffs == [t \in {} |-> BetterDiffNew(0, 0)]

\* the loop over the adjacent commits from the i-th on
RECURSIVE diffs_from(_, _, _, _, _)
diffs_from(map, objects, trees, file_filters, i) ==
    IF i > Len(objects) - 1 THEN map
    ELSE IF ~trees[i].ok THEN diffs_from(map, objects, trees, file_filters, i + 1)
    ELSE LET b_diff == push_deltas(BetterDiffNew(objects[i], objects[i + 1]),
                                   trees[i].deltas, file_filters)
         IN diffs_from((objects[i + 1].time :> b_diff) @@ map,
                       objects, trees, file_filters, i + 1)

\* diffs: objects.len() - 1 on an empty vector overflows (a panic when
\* overflow is detected) or wraps, and then objects[0] is out of bounds
get_diffs(objects, trees, file_filters) ==
    IF Len(objects) = 0 THEN [panicked |-> TRUE, value |-> NoDiffs]
    ELSE [panicked |-> FALSE, value |-> diffs_from(NoDiffs, objects, trees, file_filters, 1)]

Deltas == {[old_file |-> o, new_file |-> n] : o \in Paths, n \in Paths}

\* the outcomes of the n tree-to-tree diffs, with at most budget deltas
RECURSIVE TreeDiffs(_, _)
TreeDiffs(n, budget) ==
    IF n = 0 THEN {<<>>}
    ELSE UNION {{<<[ok |-> TRUE, deltas |-> l]>> \o rest : rest \in TreeDiffs(n - 1, budget - Len(l))} :
                   l \in SeqsUpTo(Deltas, budget)}
         \cup {<<[ok |-> FALSE, deltas |-> <<>>]>> \o rest : rest \in TreeDiffs(n - 1, budget)}

\* commits in the order of mine_objects: ascending distinct commit times
Commits(n) == [i \in 1..n |-> [id |-> i, time |-> (FirstDay + i) * SecondsPerDay]]

FileFilters == {[exclude_paths |-> e, include_paths |-> i] : e \in Patterns, i \in Patterns}

InitDiffs ==
    /\ call \in UNION {{[fn |-> "diffs", objects |-> Commits(n), trees |-> t, file_filters |-> ff] :
                            t \in TreeDiffs(IF n = 0 THEN 0 ELSE n - 1, MaxDeltas),
                            ff \in FileFilters} : n \in 0..MaxCommits}
    /\ ret = NoRet
    /\ pc = "call"
    /\ NoPipeline

Diffs ==
    /\ pc = "call"
    /\ call.fn = "diffs"
    /\ ret' = get_diffs(call.objects, call.trees, call.file_filters)
    /\ pc' = "done"
    /\ UNCHANGED <<call, pipeline>>

NextDiffs == Diffs

SpecDiffs == InitDiffs /\ [][NextDiffs]_vars

(***************************************************************************)
(* NaiveModel::dates_distance (naive.rs) with its smoothing function as an *)
(* argument: the square root or the identity.  The date axis is ascending  *)
(* and holds at most MaxAxis dates; values are in fixed point, Scale       *)
(* standing for 1.                                                         *)
(***************************************************************************)
Smoothings == {"sqrt", "identity"}

AxisDates ==
    {0, 43200, SecondsPerDay, SecondsPerDay + 43200, 3 * SecondsPerDay - 1,
     3 * SecondsPerDay, 20 * SecondsPerDay}

DateAxes == {Sort(l) : l \in {l \in SeqsUpTo(AxisDates, MaxAxis) : Unique(l)}}

MaxAxisDays == 20

\* 1 / distance_smooth(v) for a whole number v: the smoothing closure
\* followed by the reciprocal
InvSmoothTable ==
    [f \in Smoothings |->
        [v \in 1..(MaxAxisDays + 1) |->
            IF f = "identity" THEN Scale \div v
            ELSE CHOOSE x \in 0..Scale :
                    x * x * v <= Scale * Scale /\ (x + 1) * (x + 1) * v > Scale * Scale]]

\* the loops over i and over j in (0..i).rev() on the zero matrix
days_matrix(dates) ==
    [i \in 1..Len(dates) |->
        [j \in 1..Len(dates) |->
            IF j < i THEN num_days(dates[i] - dates[j]) ELSE 0]]

dates_distance_smooth(dates, distance_smooth) ==
    LET mtrx == days_matrix(dates)
    IN [i \in 1..Len(dates) |->
           [j \in 1..Len(dates) |-> InvSmoothTable[distance_smooth][mtrx[i][j] + 1]]]

InitDates ==
    /\ call \in {[fn |-> "dates_distance", dates |-> a, distance_smooth |-> f] :
                    a \in DateAxes, f \in Smoothings}
    /\ ret = NoRet
    /\ pc = "call"
    /\ NoPipeline

DatesDistance ==
    /\ pc = "call"
    /\ call.fn = "dates_distance"
    /\ ret' = dates_distance_smooth(call.dates, call.distance_smooth)
    /\ pc' = "done"
    /\ UNCHANGED <<call, pipeline>>

NextDates == DatesDistance

SpecDates == InitDates /\ [][NextDates]_vars

(***************************************************************************)
(* Display of a ripple (predict.rs): the lines written for at most         *)
(* MaxPredictions predictions.  A line is the file and the probability     *)
(* with two decimals, in hundredths, or inf.                               *)
(***************************************************************************)
\* p.1 > 1e-2, which is false of NaN
above_hundredth(x) == x = Inf \/ (IsNumber(x) /\ x.num * 100 > x.den)

\* p.1 >= 1e-2, which is false of NaN
at_least_hundredth(x) == x = Inf \/ (IsNumber(x) /\ x.num * 100 >= x.den)

\* total_cmp(x, y) = Less on values that are not NaN
total_less(x, y) ==
    IF x = Inf THEN FALSE
    ELSE IF y = Inf THEN TRUE
    ELSE x.num * y.den < y.num * x.den

\* sorted_by(|x, y| y.1.total_cmp(&x.1)): stable, greatest first
RECURSIVE InsertDescending(_, _)
InsertDescending(x, s) ==
    IF s = <<>> THEN <<x>>
    ELSE IF total_less(Head(s)[2], x[2]) THEN <<x>> \o s
    ELSE <<Head(s)>> \o InsertDescending(x, Tail(s))

RECURSIVE sorted_descending(_)
sorted_descending(s) ==
    IF s = <<>> THEN <<>>
    ELSE InsertDescending(s[Len(s)], sorted_descending(SubSeq(s, 1, Len(s) - 1)))

\* {:0.2}: the nearest multiple of a hundredth
two_decimals(x) ==
    IF x = Inf THEN [inf |-> TRUE, hundredths |-> 0]
    ELSE [inf |-> FALSE, hundredths |-> (x.num * 200 + x.den) \div (2 * x.den)]

ShownPrediction(p) == at_least_hundredth(p[2])

fmt(r) ==
    LET sorted == sorted_descending(SelectSeq(r.predictions, ShownPrediction))
    IN [changing_files |-> r.changing_files,
        lines |-> [k \in 1..Len(sorted) |->
                      [file |-> sorted[k][1], probability |-> two_decimals(sorted[k][2])]]]

Probabilities ==
    {NaN, Inf, Zero, Ratio(1, 200), Ratio(1, 100), Ratio(1, 3), Ratio(1, 2), One, Ratio(3, 2)}

RipplesToShow ==
    {[changing_files |-> <<>>, predictions |-> [i \in 1..Len(ps) |-> <<i, ps[i]>>]] :
        ps \in SeqsUpTo(Probabilities, MaxPredictions)}

InitFmt ==
    /\ call \in {[fn |-> "fmt", self |-> r] : r \in RipplesToShow}
    /\ ret = NoRet
    /\ pc = "call"
    /\ NoPipeline

Fmt ==
    /\ pc = "call"
    /\ call.fn = "fmt"
    /\ ret' = fmt(call.self)
    /\ pc' = "done"
    /\ UNCHANGED <<call, pipeline>>

NextFmt == Fmt

SpecFmt == InitFmt /\ [][NextFmt]_vars

(***************************************************************************)
(* Analysis::run with the mining of the repository (bettergit.rs): call    *)
(* holds the repository, the commits of its branch oldest first, with the  *)
(* files each commit touches, and the git options.  The commits are 12     *)
(* hours apart from Monday 2019-12-30 10:00 on; all files pass the file    *)
(* filter and every tree-to-tree diff succeeds.                            *)
(***************************************************************************)
RepoTime(i) == (FirstDay + 3) * SecondsPerDay + 36000 + (i - 1) * 43200

Repositories ==
    UNION {{[i \in 1..n |-> [id |-> i, time |-> RepoTime(i), touched |-> tl[i]]] :
               tl \in [1..n -> NewFilesLists(1)]} : n \in 1..MaxCommits}

\* since and until of the commit filter
CommitWindows ==
    LET cuts == {RepoTime(1) - 1, RepoTime(1), RepoTime(2), RepoTime(MaxCommits) + 1}
    IN {w \in {[since |-> a, until |-> b] : a \in cuts, b \in cuts} : w.since < w.until}

\* the filter of mine_objects on the commit time
selected(repo, filters) ==
    LET InWindow(o) == o.time > filters.since /\ o.time < filters.until
    IN SelectSeq(repo, InWindow)

mine_objects(repo, filters) == sample_commits(selected(repo, filters), filters.binning)

\* the deltas of the trees of two commits: the files touched after the
\* parent up to the child, each with the same old and new path
tree_diff(repo, parent, child) ==
    LET files == Dedup(Sort(Flatten([k \in 1..(child.id - parent.id) |-> repo[parent.id + k].touched])))
    IN [ok |-> TRUE, deltas |-> [k \in 1..Len(files) |-> [old_file |-> files[k], new_file |-> files[k]]]]

mine_diffs(repo, options) ==
    LET objs == mine_objects(repo, options.commit_filters)
        trees == [i \in 1..(Len(objs) - 1) |-> tree_diff(repo, objs[i], objs[i + 1])]
    IN get_diffs(objs, trees, options.file_filters)

AcceptAll == [exclude_paths |-> "a^", include_paths |-> ".*"]

GitOpts ==
    {[commit_filters |-> [since |-> w.since, until |-> w.until, binning |-> g],
      file_filters |-> AcceptAll] : w \in CommitWindows, g \in {"None", "Daily"}}

InitMine ==
    /\ call \in {[fn |-> "run", repository |-> r, git_opts |-> g] :
                    r \in Repositories, g \in GitOpts}
    /\ ret = NoRet
    /\ diffs = EmptyMap
    /\ opts \in AnalysisOpts
    /\ pred_opts = [skip |-> FALSE, since_changes |-> RepoTime(1),
                    until_changes |-> RepoTime(MaxCommits), algorithm |-> opts.algorithm]
    /\ pc = "idle"
    /\ changes = NoChanges
    /\ co_changes = NoCoChanges
    /\ ripples = EmptyRipples
    /\ analysis = AnalysisNew
    /\ result = "None"
    /\ returned = "None"

\* repo.mine_diffs(&opt.git_opts)?: the branch is not found, or diffs
\* panics, or the map goes to from_diffs, which reads its new_files
MineRepository ==
    /\ pc = "mine"
    /\ \/ /\ pc' = "return"
          /\ result' = "cannot find branch"
          /\ UNCHANGED <<diffs, ret>>
       \/ /\ ret' = mine_diffs(call.repository, call.git_opts)
          /\ IF ret'.panicked
             THEN pc' = "panicked" /\ UNCHANGED diffs
             ELSE /\ pc' = "diffs"
                  /\ diffs' = [t \in DOMAIN ret'.value |-> [new_files |-> ret'.value[t].new_files]]
          /\ UNCHANGED result
    /\ UNCHANGED <<changes, opts, co_changes, pred_opts, ripples, analysis, returned, call>>

\* RippleChangeProbabilities::from under the prediction options of the
\* Analysis, whose window spans the commits of the repository
PredictMined ==
    /\ pc = "cochanges"
    /\ ripples' = RippleChangeProbabilitiesFrom(co_changes, changes, pred_opts)
    /\ pc' = "ripples"
    /\ UNCHANGED <<diffs, changes, opts, co_changes, pred_opts, analysis, result, returned, call, ret>>

NextMine ==
    \/ RunStart
    \/ OpenRepository
    \/ MineRepository
    \/ FromDiffs
    \/ opts' = opts /\ FromChanges
    \/ PredictMined
    \/ ExecuteOk
    \/ RunReturn

SpecMine == InitMine /\ [][NextMine]_vars

(***************************************************************************)
(* Properties                                                              *)
(***************************************************************************)
Done == pc = "cochanges"

F == changes.freqs

Phi == co_changes.freqs

Pi == co_changes.probs

\* Scenario A of the specification: files A, B, C (1, 2, 3), two bins one
\* day apart, t1 -> {A, B, C}, t2 -> {A, C}
ScenarioADiffs ==
    (Times[1] :> [new_files |-> <<1, 2, 3>>]) @@ (Times[3] :> [new_files |-> <<1, 3>>])

ScenarioA ==
    /\ Done
    /\ diffs = ScenarioADiffs
    /\ opts = [changes_min |-> 0, freq_min |-> 0, algorithm |-> "Naive"]

\* C1: in Scenario A the changes matrix is [[1,1],[1,0],[1,1]] and the Naive
\* co-change frequency matrix is
\*   [[0, 1 + 1/sqrt 2, 3 + 1/sqrt 2], [2, 0, 2], [3 + 1/sqrt 2, 1 + 1/sqrt 2, 0]]
C1_ScenarioAFreqs ==
    ScenarioA =>
        /\ F.matrix = <<<<1, 1>>, <<1, 0>>, <<1, 1>>>>
        /\ Phi.matrix =
              <<<<0, Scale + InvSqrt(2), 3 * Scale + InvSqrt(2)>>,
                <<2 * Scale, 0, 2 * Scale>>,
                <<3 * Scale + InvSqrt(2), Scale + InvSqrt(2), 0>>>>

\* the row of F that belongs to the file named `label`, and its prior
RowOf(label) == F.matrix[index_of_row(F, label)]

PriorOf(label) == changes.c_prob[index_of_row(F, label)]

Floored(x, freq_min) == IF x <= freq_min * Scale THEN 0 ELSE x

\* C2: Naive calculate_freqs: for distinct files u, v that survive the row
\* filter, the entry of Phi at row u, column v is coeff(u, v) computed from
\* the rows of F that belong to u and v (then floored), also when the filter
\* removes files that precede u or v
C2_NaiveFreqsByLabel ==
    (Done /\ opts.algorithm = "Naive") =>
        \A i, j \in 1..nrows(Phi) :
            i # j =>
                Phi.matrix[i][j] =
                    Floored(cc_coefficient(RowOf(Phi.row_names[i]), RowOf(Phi.row_names[j]),
                                           dates_distance(F.col_names)),
                            opts.freq_min)

\* C3: Bayesian calculate_freqs: for distinct files u, v that survive the row
\* filter, the entry of Phi at row u, column v is the number of bins in which
\* the rows of F belonging to u and v are both positive (then floored)
C3_BayesFreqsByLabel ==
    (Done /\ opts.algorithm = "Bayes") =>
        \A i, j \in 1..nrows(Phi) :
            i # j =>
                Phi.matrix[i][j] =
                    Floored(Cardinality({k \in 1..ncols(F) :
                                RowOf(Phi.row_names[i])[k] > 0 /\ RowOf(Phi.row_names[j])[k] > 0})
                            * Scale,
                            opts.freq_min)

\* Scenario C of the specification: c_prob = [0.5, 0.25, 0.5], four bins,
\* Phi = [[0,1,2],[1,0,1],[2,1,0]]
ScenarioCChanges ==
    [freqs |-> NamedMatrixNew(<<1, 2, 3>>, <<1, 2, 3, 4>>, "files", "dates"),
     c_freq |-> <<0, 0, 0>>,
     c_prob |-> <<Ratio(1, 2), Ratio(1, 4), Ratio(1, 2)>>]

ScenarioCFreqs ==
    [NamedMatrixNew(<<1, 2, 3>>, <<1, 2, 3>>, "impacted", "changed") EXCEPT
        !.matrix = <<<<0, Scale, 2 * Scale>>, <<Scale, 0, Scale>>, <<2 * Scale, Scale, 0>>>>]

\* C4: Bayesian calculate_probs: Pi[u,v] = (Phi[u,v] / n_vers) * c_prob[u] / c_prob[v]
\* with the priors of the files named u and v, for every changes_min; it stays 0
\* when a prior is below 1e-6; in Scenario C Pi[0,2] = 0.5
C4_BayesProbsByLabel ==
    /\ BayesCalculateProbs(ScenarioCChanges, ScenarioCFreqs).matrix[1][3] = Ratio(1, 2)
    /\ (Done /\ opts.algorithm \in {"Bayes", "Mixed"}) =>
          \A i, j \in 1..nrows(Pi) :
              LET eu == PriorOf(Phi.row_names[i])
                  ev == PriorOf(Phi.row_names[j])
              IN Pi.matrix[i][j] =
                    IF FBelow(eu, EvidenceEpsInv) \/ FBelow(ev, EvidenceEpsInv) THEN Zero
                    ELSE FDiv(FMul(FDiv(Ratio(Phi.matrix[i][j], Scale), Ratio(ncols(F), 1)), eu), ev)

\* C5: the label sequence of Phi (Naive, Bayesian, Mixed) is the subsequence, in
\* file-axis order, of the files whose total change count c_freq is at least
\* changes_min
C5_RowFilter ==
    (Done /\ opts.algorithm # "Nop") =>
        /\ Phi.row_names =
              SelectSeq(F.row_names,
                        LAMBDA f : changes.c_freq[index_of_row(F, f)] >= opts.changes_min)
        /\ Phi.col_names = Phi.row_names

C5_Witness ==
    /\ Done
    /\ opts.algorithm \in {"Naive", "Bayes"}
    /\ \E i, k \in 1..nrows(F) :
          /\ i < k
          /\ changes.c_freq[i] < opts.changes_min
          /\ changes.c_freq[k] = opts.changes_min
          /\ F.row_names[k] \in Range(Phi.row_names)
          /\ F.row_names[i] \notin Range(Phi.row_names)

\* the value the pair loop wrote at (i, j), before the floor
PreFloor(i, j) ==
    IF opts.algorithm = "Bayes" THEN BayesCell(F, i, j)
    ELSE NaiveCell(F, dates_distance(F.col_names), i, j)

C7_FreqDiagonalZero ==
    (Done /\ opts.algorithm # "Nop") => \A i \in 1..nrows(Phi) : Phi.matrix[i][i] = 0

C7_Witness ==
    /\ Done
    /\ opts.algorithm = "Naive"
    /\ opts.freq_min = 0
    /\ \E i, j \in 1..nrows(Phi) :
          /\ Phi.matrix[i][j] > 0
          /\ cc_coefficient(F.matrix[i], F.matrix[i], dates_distance(F.col_names)) > 0
          /\ Phi.matrix[i][i] = 0

\* C8: the diagonal of Pi is zero under the Naive and the Bayesian model, also
\* when a column of Phi sums to zero
C8_ProbDiagonalZero ==
    (Done /\ opts.algorithm \in {"Naive", "Bayes"}) =>
        \A i \in 1..nrows(Pi) : Pi.matrix[i][i] = Zero

ColSum(v) == SeqSum(Column(Phi.matrix, v))

\* C9: Naive calculate_probs: Pi has the labels of Phi on both axes, and in
\* every column v with S_v > 0, Pi[u,v] = Phi[u,v] / S_v, the entries lie in
\* [0,1] and the column sums to 1
C9_NaiveProbs ==
    (Done /\ opts.algorithm = "Naive") =>
        /\ Pi.row_names = Phi.row_names
        /\ Pi.col_names = Phi.col_names
        /\ \A v \in 1..ncols(Phi) :
              ColSum(v) > 0 =>
                  /\ \A u \in 1..nrows(Phi) :
                        LET p == Pi.matrix[u][v]
                        IN /\ p.den > 0
                           /\ ColSum(v) % p.den = 0
                           /\ p.num * (ColSum(v) \div p.den) = Phi.matrix[u][v]
                           /\ 0 <= p.num /\ p.num <= p.den
                  /\ FSum(Column(Pi.matrix, v)) = One

C9_Witness ==
    /\ Done
    /\ opts.algorithm = "Naive"
    /\ \E v \in 1..ncols(Phi) :
          \E u1, u2 \in 1..nrows(Phi) :
              /\ Phi.matrix[u1][v] > 0
              /\ Phi.matrix[u2][v] > Phi.matrix[u1][v]
              /\ Pi.matrix[u1][v] = Ratio(Phi.matrix[u1][v], ColSum(v))

Multiplicity(f, l) == Cardinality({k \in 1..Len(l) : l[k] = f})

StrictlyAscending(s) == \A i \in 1..(Len(s) - 1) : s[i] < s[i + 1]

\* C10: Changes::from_diffs: the rows of F are the distinct new-path labels in
\* ascending order, the columns the distinct bins in strictly ascending order,
\* and F[i,j] is the multiplicity of file i in the new_files list of bin j,
\* whatever the order in which the map's entries are visited
C10_ChangesMatrix ==
    /\ pc # "diffs" =>
          /\ Range(F.row_names) = UNION {Range(diffs[t].new_files) : t \in DOMAIN diffs}
          /\ StrictlyAscending(F.row_names)
          /\ Range(F.col_names) = DOMAIN diffs
          /\ StrictlyAscending(F.col_names)
          /\ \A i \in 1..nrows(F), j \in 1..ncols(F) :
                F.matrix[i][j] = Multiplicity(F.row_names[i], diffs[F.col_names[j]].new_files)
    /\ pc = "changes" => \A order \in Orders(DOMAIN diffs) : changes = from_diffs(diffs, order)

C10_Witness ==
    /\ pc = "changes"
    /\ ncols(F) >= 2
    /\ \E i \in 1..nrows(F), j, k \in 1..ncols(F) : F.matrix[i][j] = 2 /\ F.matrix[i][k] = 0

\* the number of times file f is listed in the whole diff map
TotalChanges(f) ==
    SeqSum([k \in 1..Len(Times) |->
        IF Times[k] \in DOMAIN diffs THEN Multiplicity(f, diffs[Times[k]].new_files) ELSE 0])

\* C11: after Changes::from_diffs, c_freq[i] is the total number of changes of
\* file i over all bins (the sum of row i of F) and c_prob[i] is c_freq[i]
\* divided by the number of rows of F (the number of files, not of bins)
C11_ChangeFreqAndPrior ==
    pc \in {"changes", "cochanges"} =>
        /\ Len(changes.c_freq) = nrows(F)
        /\ Len(changes.c_prob) = nrows(F)
        /\ \A i \in 1..nrows(F) :
              /\ changes.c_freq[i] = TotalChanges(F.row_names[i])
              /\ changes.c_freq[i] = SeqSum(F.matrix[i])
              /\ changes.c_prob[i].den > 0
              /\ changes.c_prob[i].num * nrows(F) = changes.c_freq[i] * changes.c_prob[i].den

C11_Witness ==
    /\ pc = "changes"
    /\ nrows(F) = 3
    /\ ncols(F) = 2
    /\ \E i \in 1..nrows(F) :
          changes.c_freq[i] = 2 /\ changes.c_prob[i] = [num |-> 2, den |-> 3]

Predicted == pc = "ripples"

\* the bins of the diff map that lie in the prediction window
BinsInWindow ==
    {t \in DOMAIN diffs : pred_opts.since_changes <= t /\ t <= pred_opts.until_changes}

\* one prediction per row of Pi, labelled with the rows of Pi in row order
OnePredictionPerRow ==
    /\ Len(ripples.predictions) = nrows(Pi)
    /\ \A i \in 1..nrows(Pi) : ripples.predictions[i][1] = Pi.row_names[i]

Min(S) == CHOOSE x \in S : \A y \in S : x <= y

Max(S) == CHOOSE x \in S : \A y \in S : y <= x

\* the bins from the first bin of the window up to, and without, its last bin
CountedBins == {t \in DOMAIN diffs : Min(BinsInWindow) <= t /\ t < Max(BinsInWindow)}

TouchedIn(bins) == {f \in Files : \E t \in bins : Multiplicity(f, diffs[t].new_files) > 0}

\* C13: the ripple window: with start and end the first and last bins b with
\* since <= b <= until, a file is reported as changing iff it has a change in
\* a bin of [start, end); the last bin of the window is never counted, so a
\* window of exactly one bin yields no changing files; the changing files are
\* listed in file-axis order
C13_RippleWindow ==
    Predicted /\ ~pred_opts.skip /\ BinsInWindow # {} =>
        /\ Range(ripples.changing_files) = TouchedIn(CountedBins)
        /\ StrictlyAscending(ripples.changing_files)
        /\ \A f \in TouchedIn({Max(BinsInWindow)}) \ TouchedIn(CountedBins) :
              f \notin Range(ripples.changing_files)
        /\ Cardinality(BinsInWindow) = 1 => ripples.changing_files = <<>>

C13_Witness ==
    /\ Predicted
    /\ ~pred_opts.skip
    /\ Cardinality(BinsInWindow) >= 2
    /\ Len(ripples.changing_files) = 2
    /\ TouchedIn({Max(BinsInWindow)}) \ TouchedIn(CountedBins) # {}

\* the predictor was called: the ripple stage ran with a bin in its window
PredictorCalled == Predicted /\ ~pred_opts.skip /\ BinsInWindow # {}

\* the columns of Pi whose label is a changing file
SummedColumns == {c \in 1..ncols(Pi) : Pi.col_names[c] \in Range(ripples.changing_files)}

\* the sum of Pi[i, c] over the summed columns c >= from
RECURSIVE SumOfRow(_, _)
SumOfRow(i, from) ==
    IF from > ncols(Pi) THEN Zero
    ELSE FAdd(IF from \in SummedColumns THEN Pi.matrix[i][from] ELSE Zero,
              SumOfRow(i, from + 1))

\* C14: the predictors drop the changing files that are not column labels of
\* Pi; the ripple value of row i is the sum of Pi[i, c] over the remaining
\* columns c, divided by the number of those columns under Naive and not
\* divided under Bayes and Mixed; with a single changing file A that is a
\* column of Pi, all three give column A of Pi
C14_Predictors ==
    PredictorCalled =>
        /\ pred_opts.algorithm = "Naive" =>
              \A i \in 1..nrows(Pi) :
                  ripples.predictions[i][2] =
                      FDiv(SumOfRow(i, 1), Ratio(Cardinality(SummedColumns), 1))
        /\ pred_opts.algorithm \in {"Bayes", "Mixed"} =>
              \A i \in 1..nrows(Pi) : ripples.predictions[i][2] = SumOfRow(i, 1)
        /\ /\ pred_opts.algorithm # "Nop"
           /\ Len(ripples.changing_files) = 1
           /\ Cardinality(SummedColumns) = 1
           => \A i \in 1..nrows(Pi), c \in SummedColumns :
                  ripples.predictions[i][2] = Pi.matrix[i][c]

C14_Witness ==
    /\ PredictorCalled
    /\ pred_opts.algorithm = "Naive"
    /\ Cardinality(SummedColumns) = 2
    /\ \E i \in 1..nrows(Pi) :
          /\ SumOfRow(i, 1) = One
          /\ ripples.predictions[i][2] = [num |-> 1, den |-> 2]

Statuses == {"Initialized", "Running", "Completed", "Failed"}

\* a call of run is in progress
InRun == pc # "idle"

\* what every state of an Analysis shows: Initialized means no output, no
\* start and no end; during run the status is Running and start is set; once
\* run has returned the status is Completed after Ok and Failed after an
\* error, and end and duration = end - start are recorded
AnalysisRecords ==
    /\ analysis.status \in Statuses
    /\ analysis.status = "Initialized" =>
          analysis.output = <<>> /\ analysis.start = <<>> /\ analysis.end = <<>>
    /\ InRun => analysis.status = "Running" /\ Len(analysis.start) = 1
    /\ ~InRun /\ returned # "None" =>
          /\ analysis.status = (IF returned = "Ok" THEN "Completed" ELSE "Failed")
          /\ Len(analysis.start) = 1
          /\ Len(analysis.end) = 1
          /\ analysis.duration = analysis.end[1] - analysis.start[1]
    /\ ~InRun /\ returned = "None" => analysis = AnalysisNew

StatusStep == <<analysis.status, analysis'.status>>

\* C15: Analysis::new yields Initialized with no output, start or end; run
\* sets Running and start before the pipeline executes; when run returns the
\* status is Completed if the pipeline succeeded and Failed otherwise, with
\* end and duration = end - start recorded in both cases; the only status
\* transitions are Initialized -> Running -> {Completed, Failed}
C15_StatusMachine ==
    /\ []AnalysisRecords
    /\ [][analysis'.status # analysis.status =>
            StatusStep \in {<<"Initialized", "Running">>,
                            <<"Running", "Completed">>,
                            <<"Running", "Failed">>}]_vars

\* C15, amended: as C15, with the transitions of a further call of run:
\* Completed -> Running and Failed -> Running
C15_StatusMachineAmended ==
    /\ []AnalysisRecords
    /\ [][analysis'.status # analysis.status =>
            StatusStep \in {<<"Initialized", "Running">>,
                            <<"Running", "Completed">>,
                            <<"Running", "Failed">>,
                            <<"Completed", "Running">>,
                            <<"Failed", "Running">>}]_vars

C15_Witness ==
    /\ ~InRun
    /\ returned = "Ok"
    /\ analysis.status = "Completed"
    /\ analysis.start = <<0>>
    /\ analysis.end = <<1>>
    /\ analysis.duration = 1

Errors == {"cannot open repository", "cannot find branch"}

\* execute has failed and run is about to return
Failing == pc = "return" /\ result # "Ok"

\* C16: when opening the repository or mining the diffs fails, the later
\* stages (changes, co-changes, ripple) are not executed, run returns the
\* error of the stage that failed, the status is Failed, end and duration are
\* recorded, and the run stores no output
C16_FailedRun ==
    /\ [](Failing =>
            /\ result \in Errors
            /\ changes = NoChanges
            /\ co_changes = NoCoChanges
            /\ ripples = EmptyRipples)
    /\ [][/\ pc = "open" /\ pc' = "return" => result' = "cannot open repository"
          /\ pc = "mine" /\ pc' = "return" => result' = "cannot find branch"
          /\ Failing /\ pc' = "idle" =>
                /\ returned' = result
                /\ analysis'.status = "Failed"
                /\ Len(analysis'.end) = 1
                /\ analysis'.duration = analysis'.end[1] - analysis.start[1]
                /\ analysis'.output = analysis.output]_vars

C16_Witness ==
    /\ ~InRun
    /\ returned = "cannot find branch"
    /\ analysis.status = "Failed"
    /\ analysis.output = <<>>
    /\ analysis.end = <<1>>
    /\ analysis.duration = 1

IsEmptyMatrix(m) == nrows(m) = 0 /\ ncols(m) = 0 /\ m.matrix = <<>>

\* the stages of execute after mining
Stages == {"diffs", "changes", "cochanges", "ripples"}

\* C17: under the Nop algorithm calculate_freqs and calculate_probs return
\* matrices with no rows and no columns, predict returns an empty vector
\* whatever the changing files are, and a run on a repository that can be
\* opened and mined ends in status Completed
C17_Nop ==
    /\ [](/\ opts.algorithm = "Nop" /\ pc \in {"cochanges", "ripples"} =>
                IsEmptyMatrix(Phi) /\ IsEmptyMatrix(Pi)
          /\ pred_opts.algorithm = "Nop" /\ pc = "ripples" => ripples.predictions = <<>>
          /\ opts.algorithm = "Nop" /\ ~InRun /\ returned = "Ok" =>
                /\ analysis.status = "Completed"
                /\ Len(analysis.output) = 1
                /\ IsEmptyMatrix(analysis.output[1].co_changes.freqs)
                /\ IsEmptyMatrix(analysis.output[1].co_changes.probs))
    /\ [][/\ opts.algorithm = "Nop" /\ pc \in Stages => pc' \in Stages \/ result' = "Ok"
          /\ opts.algorithm = "Nop" /\ pc = "return" /\ result = "Ok" =>
                analysis'.status = "Completed"]_vars

C17_Witness ==
    /\ ~InRun
    /\ returned = "Ok"
    /\ opts.algorithm = "Nop"
    /\ pred_opts.algorithm = "Nop"
    /\ ~pred_opts.skip
    /\ analysis.status = "Completed"
    /\ analysis.output[1].ripples.changing_files # <<>>
    /\ analysis.output[1].ripples.predictions = <<>>

CoChangesBuilt == pc \in {"cochanges", "ripples"}

\* C18: the Mixed model takes its frequencies from the Naive model and its
\* probabilities (computed on those frequencies) and its predictions from
\* the Bayesian model; the Naive selection pairs the Naive frequencies with
\* the Naive probabilities, the Bayes selection the Bayesian ones
C18_MixedComposition ==
    /\ pc = "cochanges" /\ opts.algorithm = "Mixed" =>
          /\ Phi = NaiveCalculateFreqs(changes, opts)
          /\ Pi = BayesCalculateProbs(changes, NaiveCalculateFreqs(changes, opts))
    /\ pc = "cochanges" /\ opts.algorithm = "Naive" =>
          /\ Phi = NaiveCalculateFreqs(changes, opts)
          /\ Pi = NaiveCalculateProbs(NaiveCalculateFreqs(changes, opts))
    /\ pc = "cochanges" /\ opts.algorithm = "Bayes" =>
          /\ Phi = BayesCalculateFreqs(changes, opts)
          /\ Pi = BayesCalculateProbs(changes, BayesCalculateFreqs(changes, opts))
    /\ PredictorCalled /\ pred_opts.algorithm = "Mixed" =>
          ripples.predictions = BayesPredict(co_changes, ripples.changing_files)

C18_Witness ==
    /\ PredictorCalled
    /\ opts.algorithm = "Mixed"
    /\ pred_opts.algorithm = "Mixed"
    /\ Phi # BayesCalculateFreqs(changes, opts)
    /\ Pi # NaiveCalculateProbs(Phi)
    /\ \E i \in 1..Len(ripples.predictions) :
          ripples.predictions[i][2] \notin {Zero, NaN}
    /\ ripples.predictions # NaivePredict(co_changes, ripples.changing_files)

\* C19: an empty diff map is not an error: from_diffs returns a changes
\* matrix with no rows and no columns and empty c_freq and c_prob,
\* from_changes returns empty Phi and Pi under every algorithm, the ripple is
\* empty, and every stage runs (none fails, none divides by the row count 0)
C19_EmptyInput ==
    diffs = EmptyMap =>
        /\ pc \in {"changes", "cochanges", "ripples"} =>
              /\ IsEmptyMatrix(F)
              /\ changes.c_freq = <<>>
              /\ changes.c_prob = <<>>
        /\ CoChangesBuilt => IsEmptyMatrix(Phi) /\ IsEmptyMatrix(Pi)
        /\ Predicted => ripples.changing_files = <<>> /\ ripples.predictions = <<>>
        /\ ~Predicted => ENABLED NextRipple

C19_Witness ==
    /\ diffs = EmptyMap
    /\ Predicted
    /\ ~pred_opts.skip
    /\ opts.algorithm = "Naive"
    /\ pred_opts.algorithm = "Naive"
    /\ IsEmptyMatrix(Pi)
    /\ ripples.predictions = <<>>

\* C20: the pipeline is deterministic: F (with c_freq and c_prob) is the
\* same whatever order the diff map is iterated in, Phi, Pi and the ripple
\* are those any other execution computes from that F and the same options,
\* and no later stage alters what an earlier one produced
C20_Determinism ==
    /\ [](pc = "changes" =>
            \A order \in Orders(DOMAIN diffs) : changes = from_diffs(diffs, order))
    /\ [](pc = "cochanges" => co_changes = from_changes(changes, opts))
    /\ [](Predicted =>
            ripples = RippleChangeProbabilitiesFrom(co_changes, changes, pred_opts))
    /\ [][/\ pc \in {"changes", "cochanges"} => changes' = changes /\ diffs' = diffs
          /\ pc = "cochanges" => co_changes' = co_changes /\ opts' = opts]_vars

C20_Witness ==
    /\ Predicted
    /\ Cardinality(DOMAIN diffs) = 3
    /\ nrows(Pi) >= 1
    /\ Len(ripples.changing_files) >= 1
    /\ \E i \in 1..Len(ripples.predictions) : ripples.predictions[i][2] \notin {Zero, NaN}

(***************************************************************************)
(* C21: a new NamedMatrix has the shape (|rows|, |cols|) and only zero     *)
(* cells.  With unique labels the index of the i-th row label is i and     *)
(* that of the j-th column label is j; a label that is absent has no       *)
(* index, which differs from every index; a repeated label has the         *)
(* largest index at which it occurs.                                       *)
(***************************************************************************)
Returned(fn) == pc = "done" /\ call.fn = fn

LastIndex(names, x) == Max({i \in 1..Len(names) : names[i] = x})

C21_NamedMatrixNew ==
    Returned("NamedMatrix::new") =>
        LET rows == call.row_names
            cols == call.col_names
        IN /\ Len(ret.matrix) = Len(rows)
           /\ \A i \in 1..Len(rows) :
                 /\ Len(ret.matrix[i]) = Len(cols)
                 /\ \A j \in 1..Len(cols) : ret.matrix[i][j] = 0
           /\ nrows(ret) = Len(rows) /\ ncols(ret) = Len(cols)
           /\ Unique(rows) => \A i \in 1..Len(rows) : index_of_row(ret, rows[i]) = i
           /\ Unique(cols) => \A j \in 1..Len(cols) : index_of_col(ret, cols[j]) = j
           /\ \A x \in Files \ Range(rows) :
                 /\ index_of_row(ret, x) = None
                 /\ None \notin 1..Len(rows)
           /\ \A y \in Range(Times) \ Range(cols) :
                 /\ index_of_col(ret, y) = None
                 /\ None \notin 1..Len(cols)
           /\ \A x \in Range(rows) : index_of_row(ret, x) = LastIndex(rows, x)
           /\ \A y \in Range(cols) : index_of_col(ret, y) = LastIndex(cols, y)

\* a matrix whose first row label is repeated and which lacks a label
C21_Witness ==
    /\ Returned("NamedMatrix::new")
    /\ Len(call.row_names) = 3
    /\ call.row_names[1] = call.row_names[3]
    /\ Files \ Range(call.row_names) # {}
    /\ Len(call.col_names) = 2
    /\ Unique(call.col_names)

(***************************************************************************)
(* C24: two instants have the same Daily group iff they are on the same    *)
(* UTC day, the same Weekly group iff they are in the same week from       *)
(* Monday to Sunday, the same Monthly group iff they are in the same       *)
(* calendar month; under None the group is the instant.  A group is not    *)
(* after its instant and is its own group.  The calendar is written out:   *)
(* Monday 2019-12-30 is day 18260, and the months from December 2019       *)
(* start on the days of MonthStarts.                                       *)
(***************************************************************************)
AMonday == 18260

MonthStarts == <<18231, 18262, 18293, 18322, 18353, 18383>>

SameDay(d, e) == \E k \in 0..(MaxDay + 1) :
    LET start == (FirstDay + k) * SecondsPerDay
    IN /\ start <= d /\ d < start + SecondsPerDay
       /\ start <= e /\ e < start + SecondsPerDay

SameWeek(d, e) == \E k \in -1..(MaxDay \div 7 + 1) :
    LET start == (AMonday + 7 * k) * SecondsPerDay
    IN /\ start <= d /\ d < start + 7 * SecondsPerDay
       /\ start <= e /\ e < start + 7 * SecondsPerDay

SameMonth(d, e) == \E k \in 1..(Len(MonthStarts) - 1) :
    /\ MonthStarts[k] * SecondsPerDay <= d /\ d < MonthStarts[k + 1] * SecondsPerDay
    /\ MonthStarts[k] * SecondsPerDay <= e /\ e < MonthStarts[k + 1] * SecondsPerDay

SameBin(grouping, d, e) ==
    CASE grouping = "None" -> d = e
      [] grouping = "Daily" -> SameDay(d, e)
      [] grouping = "Weekly" -> SameWeek(d, e)
      [] grouping = "Monthly" -> SameMonth(d, e)

C24_GetGroup ==
    Returned("get_group") =>
        /\ \A e \in Instants :
              (ret = get_group(call.grouping, e)) <=> SameBin(call.grouping, call.d, e)
        /\ call.grouping = "None" => ret = call.d
        /\ ret <= call.d
        /\ get_group(call.grouping, ret) = ret

\* Wednesday 2020-01-01 at noon, whose week began in the year before
C24_Witness ==
    /\ Returned("get_group")
    /\ call.grouping = "Weekly"
    /\ call.d = 18262 * SecondsPerDay + 43200
    /\ ret = AMonday * SecondsPerDay
    /\ year_month_day(ret) = [year |-> 2019, month |-> 12, day |-> 30]

(***************************************************************************)
(* C22: without binning sample_commits returns every commit it is given;   *)
(* with Daily, Weekly or Monthly binning it returns one commit per bin,    *)
(* in ascending order of the bins, and the commit of a bin is the first    *)
(* commit of the input that falls into it.                                 *)
(***************************************************************************)
BinOf(o) == get_group(call.binning, o.time)

FirstOfBin(objects, b) ==
    objects[Min({i \in 1..Len(objects) : get_group(call.binning, objects[i].time) = b})]

OnePerBin ==
    /\ {BinOf(ret[i]) : i \in 1..Len(ret)} = {BinOf(call.objects[i]) : i \in 1..Len(call.objects)}
    /\ \A i \in 1..(Len(ret) - 1) : BinOf(ret[i]) < BinOf(ret[i + 1])
    /\ \A i \in 1..Len(ret) : ret[i] = FirstOfBin(call.objects, BinOf(ret[i]))

C22_SampleCommits ==
    Returned("sample_commits") =>
        /\ call.binning = "None" =>
              /\ Len(ret) = Len(call.objects)
              /\ Range(ret) = Range(call.objects)
        /\ call.binning # "None" => OnePerBin

\* what holds of sample_commits under every grouping
C22_OnePerBin == Returned("sample_commits") => OnePerBin

C23_OldPathFilter ==
    Returned("diffs") /\ ~ret.panicked =>
        \A t \in DOMAIN ret.value :
            /\ Len(ret.value[t].new_files) = Len(ret.value[t].old_files)
            /\ \A k \in 1..Len(ret.value[t].old_files) :
                  matches(call.file_filters, ret.value[t].old_files[k])

(***************************************************************************)
(* C25: for an ascending date axis of length m dates_distance returns an   *)
(* m x m matrix D with D[i,j] = 1 / s(1 + d) below the diagonal, d being   *)
(* the whole days from dates[j] to dates[i], and D[i,j] = 1 on and above   *)
(* the diagonal; every entry is greater than 0 and at most 1.  In fixed    *)
(* point x = 1 / v means x * v <= Scale < (x + 1) * v, and x = 1 / sqrt(v) *)
(* means x * x * v <= Scale * Scale < (x + 1) * (x + 1) * v.               *)
(***************************************************************************)
WholeDays(from, to) ==
    CHOOSE d \in 0..MaxAxisDays : d * SecondsPerDay <= to - from /\ to - from < (d + 1) * SecondsPerDay

IsInvSmooth(f, x, v) ==
    IF f = "identity" THEN x * v <= Scale /\ Scale < (x + 1) * v
    ELSE x * x * v <= Scale * Scale /\ Scale * Scale < (x + 1) * (x + 1) * v

C25_DatesDistance ==
    Returned("dates_distance") =>
        LET m == Len(call.dates)
        IN /\ Len(ret) = m
           /\ \A i \in 1..m :
                 /\ Len(ret[i]) = m
                 /\ \A j \in 1..m :
                       /\ j < i => IsInvSmooth(call.distance_smooth, ret[i][j],
                                                1 + WholeDays(call.dates[j], call.dates[i]))
                       /\ i <= j => ret[i][j] = Scale
                       /\ 0 < ret[i][j] /\ ret[i][j] <= Scale

\* three dates: a day and a half less a second apart (1 day), then 17 days
\* less a second (16 days); 18 days and a half from the first to the last
C25_Witness ==
    /\ Returned("dates_distance")
    /\ call.dates = <<SecondsPerDay + 43200, 3 * SecondsPerDay - 1, 20 * SecondsPerDay>>
    /\ call.distance_smooth = "sqrt"
    /\ IsInvSmooth("sqrt", ret[2][1], 2)
    /\ IsInvSmooth("sqrt", ret[3][2], 18)
    /\ IsInvSmooth("sqrt", ret[3][1], 19)
    /\ ret[1][3] = Scale

(***************************************************************************)
(* C26: the lines displayed for a ripple are exactly its predictions with  *)
(* a probability of at least 1e-2, ordered by probability descending; a    *)
(* prediction below 1e-2 or with the probability NaN is not displayed.     *)
(***************************************************************************)
ProbabilityOf(file) == call.self.predictions[file][2]

AtLeast(x, y) == x = Inf \/ (IsNumber(x) /\ IsNumber(y) /\ x.num * y.den >= y.num * x.den)

C26_RippleDisplay ==
    Returned("fmt") =>
        LET shown == {ret.lines[k].file : k \in 1..Len(ret.lines)}
        IN /\ shown = {i \in 1..Len(call.self.predictions) :
                          AtLeast(ProbabilityOf(i), Ratio(1, 100))}
           /\ Cardinality(shown) = Len(ret.lines)
           /\ \A k \in 1..(Len(ret.lines) - 1) :
                 AtLeast(ProbabilityOf(ret.lines[k].file), ProbabilityOf(ret.lines[k + 1].file))
           /\ \A i \in 1..Len(call.self.predictions) :
                 ProbabilityOf(i) \in {NaN, Zero, Ratio(1, 200)} => i \notin shown

\* NaN, exactly 1e-2 and a half: the half is shown before the hundredth
C26_Witness ==
    /\ Returned("fmt")
    /\ call.self.predictions = << <<1, NaN>>, <<2, Ratio(1, 100)>>, <<3, Ratio(1, 2)>> >>
    /\ ret.lines = << [file |-> 3, probability |-> [inf |-> FALSE, hundredths |-> 50]],
                      [file |-> 2, probability |-> [inf |-> FALSE, hundredths |-> 1]] >>

(***************************************************************************)
(* C27: when the commit filter selects no commit or one commit, mining     *)
(* does not panic and yields an empty diff map, and the analysis then      *)
(* completes with empty matrices.                                          *)
(***************************************************************************)
NumSelected == Len(selected(call.repository, call.git_opts.commit_filters))

Mined == pc \in {"diffs", "changes", "cochanges", "ripples", "panicked"} \/ (pc = "return" /\ result = "Ok")

C27_NoUsableCommits ==
    Mined /\ NumSelected <= 1 =>
        /\ pc # "panicked"
        /\ diffs = EmptyMap
        /\ pc \in {"changes", "cochanges", "ripples", "return"} => IsEmptyMatrix(F)
        /\ pc \in {"cochanges", "ripples", "return"} => IsEmptyMatrix(Phi) /\ IsEmptyMatrix(Pi)

\* what holds: with one commit selected the run completes with empty matrices
C27_OneCommit ==
    Mined /\ NumSelected = 1 =>
        /\ pc # "panicked"
        /\ diffs = EmptyMap
        /\ pc \in {"changes", "cochanges", "ripples", "return"} => IsEmptyMatrix(F)
        /\ pc \in {"cochanges", "ripples", "return"} => IsEmptyMatrix(Phi) /\ IsEmptyMatrix(Pi)

(***************************************************************************)
(* C28: after any sequence of calls of run the Analysis holds an output    *)
(* if and only if its status is Completed; after a run that ended Failed   *)
(* no output of an earlier run is left.                                    *)
(***************************************************************************)
C28_OutputIffCompleted ==
    ~InRun =>
        /\ analysis.output # <<>> <=> analysis.status = "Completed"
        /\ analysis.status = "Failed" => analysis.output = <<>>

\* what holds: a Completed Analysis holds an output, a new one does not
C28_CompletedHasOutput ==
    ~InRun =>
        /\ analysis.status = "Completed" => Len(analysis.output) = 1
        /\ analysis.status = "Initialized" => analysis.output = <<>>

(***************************************************************************)
(* C29: when every entry of Pi is a number from 0 to 1, every value that   *)
(* the Naive predictor returns is a number from 0 to 1, also when no       *)
(* column of Pi is summed because there is no changing file or none of     *)
(* the changing files labels a column of Pi.                               *)
(***************************************************************************)
InUnitInterval(x) == IsNumber(x) /\ 0 <= x.num /\ x.num <= x.den

PiInUnitInterval ==
    \A i \in 1..nrows(Pi) : \A j \in 1..ncols(Pi) : InUnitInterval(Pi.matrix[i][j])

NaivePredicted == PredictorCalled /\ pred_opts.algorithm = "Naive"

C29_NaivePredictRange ==
    NaivePredicted /\ PiInUnitInterval =>
        \A k \in 1..Len(ripples.predictions) : InUnitInterval(ripples.predictions[k][2])

\* what holds: the values are numbers from 0 to 1 when a column is summed
C29_NaivePredictAverage ==
    NaivePredicted /\ PiInUnitInterval /\ SummedColumns # {} =>
        \A k \in 1..Len(ripples.predictions) : InUnitInterval(ripples.predictions[k][2])

(***************************************************************************)
(* C30: the co-change frequency matrix of the Bayesian model is symmetric: *)
(* Phi[u,v] = Phi[v,u] for all rows u and v, whatever the changes matrix   *)
(* and the options changes_min and freq_min.                               *)
(***************************************************************************)
C30_BayesFreqsSymmetric ==
    (Done /\ opts.algorithm = "Bayes") =>
        /\ nrows(Phi) = ncols(Phi)
        /\ Phi.row_names = Phi.col_names
        /\ \A u, v \in 1..nrows(Phi) : Phi.matrix[u][v] = Phi.matrix[v][u]

\* three rows, one of them filtered out, and a co-change that is counted
C30_Witness ==
    /\ Done
    /\ opts.algorithm = "Bayes"
    /\ nrows(F) = 3
    /\ nrows(Phi) = 2
    /\ Phi.matrix[1][2] > 0
    /\ Phi.matrix[2][1] > 0

====
